---- MODULE Spec2Model ----
(***************************************************************************)
(* PDF heading outline pipeline: feature engine, heading-context tracker,  *)
(* rule overlay and outline assembler of predict.py, process_all_pdfs.py,  *)
(* main.py and utils/feature_extractor*.py, and the block extractor of     *)
(* utils/pdf_extractor.py.                                                 *)
(*                                                                         *)
(* Conventions.  A Python str is a sequence of one-character strings.  A   *)
(* Python dict is a function whose DOMAIN is the set of its keys, so that  *)
(* dict.get(key, default) is Get.  A Python float is an exact rational     *)
(* <<numerator, denominator>> in lowest terms.  Python list indices are    *)
(* 0-based: block i of the code is blocks[i + 1] here, and the 'index' of  *)
(* a heading context keeps the Python value.                               *)
(***************************************************************************)
EXTENDS Integers, Sequences, FiniteSets, TLC

VARIABLES
    mode,               \* the running entry point
    pc,                 \* position in it
    model_bundle,       \* the bundle file at model_path
    model,              \* graph of the classifier (a pure function) observed so far
    pdfs,               \* the PDF files: name -> the blocks extraction yields
    pdf_dir,            \* os.listdir(pdf_dir) (predict_outline: the one pdf_path)
    pos,                \* position of the batch loop in pdf_dir
    extracted,          \* names passed to extract_enriched_blocks so far
    all_blocks,         \* the block list being processed ('blocks' at inference)
    font_map,           \* the font-id map used for font_name_id
    median_font,        \* document median font size
    i,                  \* loop index (Python value) of the running block loop
    last_heading_info,  \* Context Tracker state
    heading_context,    \* the context used to featurize each block
    features_matrix,    \* the feature vectors computed
    raw_predictions,    \* what model.predict returned for each block
    predictions,        \* 'predictions' of the code
    final_labels,       \* the label each block enters the assembler with
    assembled,          \* the blocks the assembly loop last ran over
    outline,            \* local 'outline' of the assembler
    title_parts,        \* local 'title_parts' of the assembler
    output,             \* predict_outline: the emitted JSON objects
    out_files,          \* batch: the output directory
    log,                \* batch: per-document failure reports
    fatal,              \* the FATAL ERROR printed by a failed bundle load ("" if none)
    labeled_files,      \* run_training: the labeled JSON files, in listing order
    doc,                \* extract_enriched_blocks: the pages of the opened PDF
    pages_read,         \* extract_enriched_blocks: pages processed so far
    table_bboxes        \* extract_enriched_blocks: table regions of the last page

vars == <<mode, pc, model_bundle, model, pdfs, pdf_dir, pos, extracted, all_blocks,
          font_map, median_font, i, last_heading_info, heading_context,
          features_matrix, raw_predictions, predictions, final_labels, assembled,
          outline, title_parts, output, out_files, log, fatal, labeled_files, doc,
          pages_read, table_bboxes>>

(***************************************************************************)
(* Characters and strings                                                  *)
(***************************************************************************)
\* The modelled characters in code-point order (Python compares str by code point).
Alphabet ==
    << " ", "!", "(", ")", "+", "-", ".",
       "0", "1", "2", "3", "4", "5", "6", "7", "8", "9", ":", "?",
       "A", "B", "C", "D", "E", "F", "G", "H", "I", "J", "K", "L", "M",
       "N", "O", "P", "Q", "R", "S", "T", "U", "V", "W", "X", "Y", "Z", "_",
       "a", "b", "c", "d", "e", "f", "g", "h", "i", "j", "k", "l", "m",
       "n", "o", "p", "q", "r", "s", "t", "u", "v", "w", "x", "y", "z" >>

Code(c) == CHOOSE k \in 1..Len(Alphabet) : Alphabet[k] = c

DigitChars == {"0", "1", "2", "3", "4", "5", "6", "7", "8", "9"}
UpperSeq ==
    << "A", "B", "C", "D", "E", "F", "G", "H", "I", "J", "K", "L", "M",
       "N", "O", "P", "Q", "R", "S", "T", "U", "V", "W", "X", "Y", "Z" >>
LowerSeq ==
    << "a", "b", "c", "d", "e", "f", "g", "h", "i", "j", "k", "l", "m",
       "n", "o", "p", "q", "r", "s", "t", "u", "v", "w", "x", "y", "z" >>
UpperChars == {UpperSeq[k] : k \in 1..26}
LowerChars == {LowerSeq[k] : k \in 1..26}
SpaceChars == {" "}

IsDigit(c) == c \in DigitChars
DigitVal(c) == Code(c) - Code("0")

\* str.lower() on one character
LowerChar(c) ==
    IF c \in UpperChars THEN LowerSeq[CHOOSE k \in 1..26 : UpperSeq[k] = c] ELSE c

\* str.lower()
Lower(s) == [k \in 1..Len(s) |-> LowerChar(s[k])]

\* s[a:] with a Python (0-based) start
From(s, a) == IF a >= Len(s) THEN <<>> ELSE SubSeq(s, a + 1, Len(s))

\* str.startswith(p)
StartsWith(s, p) == Len(s) >= Len(p) /\ SubSeq(s, 1, Len(p)) = p

\* str.endswith(p)
EndsWith(s, p) == Len(s) >= Len(p) /\ SubSeq(s, Len(s) - Len(p) + 1, Len(s)) = p

RECURSIVE LStrip(_)
LStrip(s) == IF s # <<>> /\ Head(s) \in SpaceChars THEN LStrip(Tail(s)) ELSE s

RECURSIVE RStrip(_)
RStrip(s) ==
    IF s # <<>> /\ s[Len(s)] \in SpaceChars THEN RStrip(SubSeq(s, 1, Len(s) - 1)) ELSE s

\* str.strip()
Strip(s) == RStrip(LStrip(s))

\* str.isdigit(): non-empty and every character a digit
IsDigitStr(s) == s # <<>> /\ \A k \in 1..Len(s) : IsDigit(s[k])

\* str.isupper(): at least one cased character and no lowercase one
IsUpperStr(s) ==
    /\ \E k \in 1..Len(s) : s[k] \in UpperChars
    /\ \A k \in 1..Len(s) : s[k] \notin LowerChars

RECURSIVE JoinWith(_, _)
\* sep.join(parts)
JoinWith(sep, parts) ==
    IF parts = <<>> THEN <<>>
    ELSE IF Len(parts) = 1 THEN parts[1]
    ELSE parts[1] \o sep \o JoinWith(sep, Tail(parts))

\* Python's < on str: lexicographic by code point
RECURSIVE StrLess(_, _)
StrLess(a, b) ==
    IF b = <<>> THEN FALSE
    ELSE IF a = <<>> THEN TRUE
    ELSE IF Head(a) = Head(b) THEN StrLess(Tail(a), Tail(b))
    ELSE Code(Head(a)) < Code(Head(b))

(***************************************************************************)
(* int(str): optional surrounding whitespace, optional sign, digits with   *)
(* single underscores between them; anything else raises ValueError.       *)
(***************************************************************************)
IntBody(s) ==
    /\ s # <<>>
    /\ IsDigit(s[1]) /\ IsDigit(s[Len(s)])
    /\ \A k \in 1..Len(s) : IsDigit(s[k]) \/ s[k] = "_"
    /\ \A k \in 1..(Len(s) - 1) : ~(s[k] = "_" /\ s[k + 1] = "_")

RECURSIVE DigitsValue(_, _)
DigitsValue(s, acc) ==
    IF s = <<>> THEN acc
    ELSE IF Head(s) = "_" THEN DigitsValue(Tail(s), acc)
    ELSE DigitsValue(Tail(s), 10 * acc + DigitVal(Head(s)))

\* [ok |-> FALSE] stands for ValueError
ParseInt(str) ==
    LET t == Strip(str)
        signed == t # <<>> /\ t[1] \in {"+", "-"}
        body == IF signed THEN Tail(t) ELSE t
    IN  IF IntBody(body)
        THEN [ok |-> TRUE,
              val |-> IF signed /\ t[1] = "-" THEN 0 - DigitsValue(body, 0)
                      ELSE DigitsValue(body, 0)]
        ELSE [ok |-> FALSE, val |-> 0]

(***************************************************************************)
(* Floats as exact rationals                                               *)
(***************************************************************************)
Abs(n) == IF n < 0 THEN 0 - n ELSE n

RECURSIVE GCD(_, _)
GCD(a, b) == IF b = 0 THEN a ELSE GCD(b, a % b)

\* n / d in lowest terms, d # 0
Rat(n, d) ==
    LET s == IF d < 0 THEN 0 - 1 ELSE 1
        g == GCD(Abs(n), Abs(d))
    IN  IF n = 0 THEN <<0, 1>> ELSE <<(s * n) \div g, (s * d) \div g>>

Float(n) == <<n, 1>>
FloatBool(b) == IF b THEN <<1, 1>> ELSE <<0, 1>>
RatDiv(a, b) == Rat(a[1] * b[2], a[2] * b[1])
RatMul(a, b) == Rat(a[1] * b[1], a[2] * b[2])
RatLess(a, b) == a[1] * b[2] < b[1] * a[2]
RatPos(a) == a[1] > 0

\* dict.get(key, default)
Get(d, key, default) == IF key \in DOMAIN d THEN d[key] ELSE default

RatSub(a, b) == Rat(a[1] * b[2] - b[1] * a[2], a[2] * b[2])
RatAbs(a) == <<Abs(a[1]), a[2]>>

RECURSIVE Insert(_, _)
Insert(x, s) ==
    IF s = <<>> THEN <<x>>
    ELSE IF x <= Head(s) THEN <<x>> \o s
    ELSE <<Head(s)>> \o Insert(x, Tail(s))

RECURSIVE SortedList(_)
SortedList(s) == IF s = <<>> THEN <<>> ELSE Insert(Head(s), SortedList(Tail(s)))

\* np.median: the middle element, or the mean of the two middle elements
NpMedian(xs) ==
    LET s == SortedList(xs)
        n == Len(s)
    IN  IF n % 2 = 1 THEN Float(s[(n + 1) \div 2])
        ELSE Rat(s[n \div 2] + s[n \div 2 + 1], 2)

\* doc_font_sizes / median_font of both extractors and of predict_outline
MedianFont(blocks) ==
    LET sizes == [k \in 1..Len(blocks) |-> Get(blocks[k], "font_size", 0)]
        doc_font_sizes == SelectSeq(sizes, LAMBDA v : v > 6)
    IN  IF doc_font_sizes # <<>> THEN NpMedian(doc_font_sizes) ELSE Float(12)

(***************************************************************************)
(* Label taxonomy                                                          *)
(***************************************************************************)
NONE == <<"N", "O", "N", "E">>
TITLE == <<"T", "I", "T", "L", "E">>
H1 == <<"H", "1">>
H2 == <<"H", "2">>
H3 == <<"H", "3">>
H4 == <<"H", "4">>

LABEL_MAPPING ==
    (NONE :> 0) @@ (TITLE :> 1) @@ (H1 :> 2) @@ (H2 :> 3) @@ (H3 :> 4) @@ (H4 :> 5)

\* {v: k for k, v in label_mapping.items()}
InverseLabelMap(label_mapping) ==
    [v \in {label_mapping[k] : k \in DOMAIN label_mapping} |->
        CHOOSE k \in DOMAIN label_mapping : label_mapping[k] = v]

(***************************************************************************)
(* Context Tracker                                                         *)
(***************************************************************************)
\* last_heading_info = {'index': -1, 'level': 0, 'font_size': median_font}
InitialHeadingInfo(median) == [index |-> 0 - 1, level |-> 0, font_size |-> median]

\* label.startswith('H') and int(label[1:]); ok = FALSE when the test fails or
\* int raises ValueError (the except clause passes)
HeadingLevel(label) ==
    IF StartsWith(label, <<"H">>) THEN ParseInt(From(label, 1))
    ELSE [ok |-> FALSE, val |-> 0]

\* Faulty variant of UpdateHeadingInfo: no try/except, a malformed token counts as level 0
UpdateHeadingInfoUnguarded(info, label, idx, block, median) ==
    IF StartsWith(label, <<"H">>)
    THEN [index |-> idx, level |-> ParseInt(From(label, 1)).val,
          font_size |-> IF "font_size" \in DOMAIN block
                        THEN Float(block["font_size"]) ELSE median]
    ELSE info

\* The context after block idx (Python index) got the label
UpdateHeadingInfo(info, label, idx, block, median) ==
    LET lv == HeadingLevel(label)
    IN  IF lv.ok
        THEN [index |-> idx, level |-> lv.val,
              font_size |-> IF "font_size" \in DOMAIN block
                            THEN Float(block["font_size"]) ELSE median]
        ELSE info

(***************************************************************************)
(* Feature Engine                                                          *)
(***************************************************************************)
DefaultFont == <<"d", "e", "f", "a", "u", "l", "t">>
UnknownLang == <<"u", "n", "k", "n", "o", "w", "n">>

\* sorted(set(values)) enumerated: value -> its rank
DenseIds(values) == [v \in values |-> Cardinality({w \in values : StrLess(w, v)})]

_get_font_mapping(blocks) ==
    DenseIds({Get(blocks[k], "font_name", DefaultFont) : k \in 1..Len(blocks)})

_get_language_mapping(blocks) ==
    DenseIds({Get(blocks[k], "language", UnknownLang) : k \in 1..Len(blocks)})

ZeroBBox == [x0 |-> 0, y0 |-> 0, x1 |-> 0, y1 |-> 0]

\* a run of one or more characters of cs (case-insensitive) followed by "."
RunThenDot(text, cs) ==
    \E k \in 1..(Len(text) - 1) :
        /\ \A j \in 1..k : LowerChar(text[j]) \in cs
        /\ text[k + 1] = "."

Keywords ==
    { <<"a", "p", "p", "e", "n", "d", "i", "x">>, <<"p", "h", "a", "s", "e">>,
      <<"c", "h", "a", "p", "t", "e", "r">>, <<"s", "e", "c", "t", "i", "o", "n">>,
      <<"a", "r", "t", "i", "c", "l", "e">> }

\* re.match of the numbering pattern, re.IGNORECASE
StartsWithPattern(text) ==
    \/ RunThenDot(text, DigitChars)                         \* \d+(\.\d+)*\.
    \/ Len(text) >= 2 /\ LowerChar(text[1]) \in LowerChars /\ text[2] = "."
    \/ \E p \in {0, 1} :                                    \* \(?[a-z\d]\)
        /\ Len(text) >= p + 2
        /\ p = 1 => text[1] = "("
        /\ LowerChar(text[p + 1]) \in LowerChars \cup DigitChars
        /\ text[p + 2] = ")"
    \/ RunThenDot(text, {"i", "v", "x", "l", "c"})          \* [IVXLC]+\.
    \/ \E kw \in Keywords :
        /\ Len(text) >= Len(kw) + 2
        /\ Lower(SubSeq(text, 1, Len(kw))) = kw
        /\ text[Len(kw) + 1] \in SpaceChars
        /\ LowerChar(text[Len(kw) + 2]) \in LowerChars \cup DigitChars

\* float(abs(((x0 + x1) / 2) / page_width - 0.5) < 0.15)
IsCentered(x0, x1, page_width) ==
    RatLess(RatAbs(RatSub(Rat(x0 + x1, 2 * page_width), Rat(1, 2))), Rat(15, 100))

\* The three hierarchical features, common to both extractors
HierarchicalFeatures(block, index, median, context) ==
    LET font_size == Get(block, "font_size", 0)
        last_heading_font_size ==
            IF RatPos(context.font_size) THEN context.font_size ELSE median
    IN  << Float(context.level),
           IF context.index # 0 - 1 THEN Float(index - context.index) ELSE Float(100),
           IF RatPos(last_heading_font_size)
           THEN RatDiv(Float(font_size), last_heading_font_size) ELSE Float(1) >>

FullFeatureNames ==
    << "font_size", "is_bold", "is_italic", "relative_font_size", "font_name_id",
       "bold_x_rel_size",
       "line_width_ratio", "y_position_normalized", "x_position_normalized",
       "is_centered",
       "is_in_table", "column",
       "space_before_ratio", "space_after_ratio",
       "line_count", "word_count", "is_all_caps", "ends_with_punct",
       "starts_with_pattern",
       "last_heading_level", "distance_from_last_heading",
       "font_size_vs_last_heading" >>

\* FeatureExtractor._get_block_features
FullBlockFeatures(block, index, median, fmap, context) ==
    LET text == Get(block, "text", <<>>)
        font_size == Get(block, "font_size", 0)
        is_bold == FloatBool(Get(block, "is_bold", FALSE))
        is_italic == FloatBool(Get(block, "is_italic", FALSE))
        font_name == Get(block, "font_name", DefaultFont)
        bbox == Get(block, "bbox", ZeroBBox)
        page_width == Get(block, "page_width", 612)
        page_height == Get(block, "page_height", 792)
        relative_size ==
            IF RatPos(median) THEN RatDiv(Float(font_size), median) ELSE Float(1)
    IN  << Float(font_size), is_bold, is_italic, relative_size,
           Float(Get(fmap, font_name, 0 - 1)), RatMul(is_bold, relative_size),
           IF page_width > 0 THEN Rat(bbox.x1 - bbox.x0, page_width) ELSE Float(0),
           IF page_height > 0 THEN Rat(bbox.y0, page_height) ELSE Float(0),
           IF page_width > 0 THEN Rat(bbox.x0, page_width) ELSE Float(0),
           IF page_width > 0
           THEN FloatBool(IsCentered(bbox.x0, bbox.x1, page_width)) ELSE Float(0),
           FloatBool(Get(block, "has_separator_above", FALSE)),
           FloatBool(Get(block, "is_in_table", FALSE)),
           Float(Get(block, "column", 1)),
           IF font_size > 0
           THEN Rat(Get(block, "vertical_space_before", 50), font_size) ELSE Float(5),
           IF font_size > 0
           THEN Rat(Get(block, "vertical_space_after", 50), font_size) ELSE Float(5),
           Float(Get(block, "line_count", 1)), Float(Get(block, "word_count", 0)),
           FloatBool(IsUpperStr(text) /\ Len(text) > 3),
           FloatBool(EndsWith(Strip(text), <<":">>) \/ EndsWith(Strip(text), <<".">>)),
           FloatBool(StartsWithPattern(text)) >>
        \o HierarchicalFeatures(block, index, median, context)

LiteFeatureNames ==
    << "font_size", "is_bold", "is_italic", "relative_font_size", "font_name_id",
       "bold_x_rel_size",
       "line_width_ratio", "y_position_normalized", "x_position_normalized",
       "is_centered",
       "is_in_table", "column", "space_before_ratio", "space_after_ratio",
       "line_count", "char_count", "ends_with_punct", "language_id",
       "last_heading_level", "distance_from_last_heading",
       "font_size_vs_last_heading" >>

\* the ASCII members of (':', '.', '。', '：', '!', '?')
LitePunct == {":", ".", "!", "?"}

\* FeatureExtractorLite._get_block_features
LiteBlockFeatures(block, index, median, fmap, lang_map, context) ==
    LET text == Get(block, "text", <<>>)
        font_size == Get(block, "font_size", 0)
        is_bold == FloatBool(Get(block, "is_bold", FALSE))
        is_italic == FloatBool(Get(block, "is_italic", FALSE))
        font_name == Get(block, "font_name", DefaultFont)
        bbox == Get(block, "bbox", ZeroBBox)
        page_width == Get(block, "page_width", 612)
        page_height == Get(block, "page_height", 792)
        relative_size ==
            IF RatPos(median) THEN RatDiv(Float(font_size), median) ELSE Float(1)
        language_code == Get(block, "language", UnknownLang)
    IN  << Float(font_size), is_bold, is_italic, relative_size,
           Float(Get(fmap, font_name, 0 - 1)), RatMul(is_bold, relative_size),
           IF page_width > 0 THEN Rat(bbox.x1 - bbox.x0, page_width) ELSE Float(0),
           IF page_height > 0 THEN Rat(bbox.y0, page_height) ELSE Float(0),
           IF page_width > 0 THEN Rat(bbox.x0, page_width) ELSE Float(0),
           IF page_width > 0
           THEN FloatBool(IsCentered(bbox.x0, bbox.x1, page_width)) ELSE Float(0),
           FloatBool(Get(block, "is_in_table", FALSE)),
           Float(Get(block, "column", 1)),
           IF font_size > 0
           THEN Rat(Get(block, "vertical_space_before", 50), font_size) ELSE Float(5),
           IF font_size > 0
           THEN Rat(Get(block, "vertical_space_after", 50), font_size) ELSE Float(5),
           Float(Get(block, "line_count", 1)), Float(Get(block, "char_count", 0)),
           FloatBool(Strip(text) # <<>> /\ Strip(text)[Len(Strip(text))] \in LitePunct),
           Float(Get(lang_map, language_code, 0 - 1)) >>
        \o HierarchicalFeatures(block, index, median, context)

(***************************************************************************)
(* Block Extractor output                                                  *)
(***************************************************************************)
\* sub in s
Contains(s, sub) ==
    \E a \in 0..(Len(s) - Len(sub)) : SubSeq(s, a + 1, a + Len(sub)) = sub

BoldKeywords ==
    { <<"b", "o", "l", "d">>, <<"b", "l", "a", "c", "k">>, <<"h", "e", "a", "v", "y">>,
      <<"s", "e", "m", "i", "b", "o", "l", "d">> }
ItalicKeywords ==
    { <<"i", "t", "a", "l", "i", "c">>, <<"o", "b", "l", "i", "q", "u", "e">> }

RECURSIVE SplitWords(_)
\* len(text.split()): number of whitespace-separated words
SplitWords(s) ==
    LET t == LStrip(s)
    IN  IF t = <<>> THEN 0
        ELSE LET w == CHOOSE k \in 1..Len(t) :
                        /\ \A j \in 1..k : t[j] \notin SpaceChars
                        /\ k = Len(t) \/ t[k + 1] \in SpaceChars
             IN  1 + SplitWords(From(t, w))

\* The dict _process_block returns for a block with the given text, dominant
\* font and geometry on a 612 x 792 page
ProcessedBlock(text, font_size, font_name, is_in_table, x0, y0, x1, y1, page_num) ==
    [ text |-> text,
      bbox |-> [x0 |-> x0, y0 |-> y0, x1 |-> x1, y1 |-> y1],
      page_number |-> page_num,
      page_width |-> 612,
      page_height |-> 792,
      font_size |-> font_size,
      font_name |-> font_name,
      is_bold |-> \E kw \in BoldKeywords : Contains(Lower(font_name), kw),
      is_italic |-> \E kw \in ItalicKeywords : Contains(Lower(font_name), kw),
      word_count |-> SplitWords(text),
      line_count |-> 1,
      is_in_table |-> is_in_table,
      column |-> IF x0 + x1 < 612 THEN 1 ELSE 2 ]

\* dict with one more key (block[key] = value)
SetKey(d, key, value) == [k \in DOMAIN d \cup {key} |-> IF k = key THEN value ELSE d[k]]

\* Faulty variant of _post_process_spacing: the neighbour's page is not looked at
SpacingAcrossPages(blocks) ==
    [k \in 1..Len(blocks) |->
        LET after ==
                IF k + 1 <= Len(blocks)
                THEN blocks[k + 1]["bbox"].y0 - blocks[k]["bbox"].y1
                ELSE 100
            before ==
                IF k > 1
                THEN blocks[k]["bbox"].y0 - blocks[k - 1]["bbox"].y1
                ELSE 100
        IN  SetKey(SetKey(blocks[k], "vertical_space_after", after),
                   "vertical_space_before", before)]

\* PdfExtractor._post_process_spacing
_post_process_spacing(blocks) ==
    [k \in 1..Len(blocks) |->
        LET after ==
                IF k + 1 <= Len(blocks)
                   /\ blocks[k + 1]["page_number"] = blocks[k]["page_number"]
                THEN blocks[k + 1]["bbox"].y0 - blocks[k]["bbox"].y1
                ELSE 100
            before ==
                IF k > 1 /\ blocks[k - 1]["page_number"] = blocks[k]["page_number"]
                THEN blocks[k]["bbox"].y0 - blocks[k - 1]["bbox"].y1
                ELSE 100
        IN  SetKey(SetKey(blocks[k], "vertical_space_after", after),
                   "vertical_space_before", before)]

(***************************************************************************)
(* Inputs                                                                  *)
(***************************************************************************)
Arial == <<"A", "r", "i", "a", "l">>
ArialBold == <<"A", "r", "i", "a", "l", "-", "B", "o", "l", "d">>
Times == <<"T", "i", "m", "e", "s">>

\* What a raw block contributes: text, dominant font, table flag, left and right edge
Contents ==
    << [text |-> <<"I", "n", "t", "r", "o">>, font_size |-> 18, font_name |-> ArialBold,
        is_in_table |-> FALSE, x0 |-> 200, x1 |-> 412],
       [text |-> <<"4", "2">>, font_size |-> 6, font_name |-> Arial,
        is_in_table |-> FALSE, x0 |-> 500, x1 |-> 512],
       [text |-> <<"T", "o", "t", "a", "l">>, font_size |-> 10, font_name |-> Arial,
        is_in_table |-> TRUE, x0 |-> 72, x1 |-> 200],
       [text |-> <<"1", ".", " ", "G", "o", ".">>, font_size |-> 12, font_name |-> Times,
        is_in_table |-> FALSE, x0 |-> 72, x1 |-> 540] >>

MaxBlocks == 2
BlocksPerPage == 2

\* The block list extract_enriched_blocks returns for a document whose raw blocks,
\* in reading order, have the given contents (BlocksPerPage blocks on every page)
ExtractedBlocks(cs) ==
    _post_process_spacing(
        [k \in 1..Len(cs) |->
            LET c == Contents[cs[k]]
                y0 == 100 + 300 * ((k - 1) % BlocksPerPage)
            IN  ProcessedBlock(c.text, c.font_size, c.font_name, c.is_in_table,
                               c.x0, y0, c.x1, y0 + 2 * c.font_size,
                               1 + (k - 1) \div BlocksPerPage)])

SeqsUpTo(S, n) == UNION {[1..m -> S] : m \in 0..n}

\* The documents: every sequence of at most MaxBlocks contents
Documents == {ExtractedBlocks(cs) : cs \in SeqsUpTo(1..Len(Contents), MaxBlocks)}

\* Labels a labeled-data file may carry: the taxonomy and malformed heading tokens
LabelTokens ==
    {NONE, TITLE, H1, H2, <<"H">>, <<"H", "a", "b", "c">>, <<"H", "1", "2">>}

\* Contents used for labeled (training) data
TrainContents == {1, 4}

MaxTrainBlocks == 2

\* Labeled data: extracted blocks, each given a 'label'
LabeledDocuments ==
    UNION { { [k \in 1..Len(cs) |-> SetKey(ExtractedBlocks(cs)[k], "label", ls[k])] :
                ls \in [1..Len(cs) -> LabelTokens] } :
            cs \in SeqsUpTo(TrainContents, MaxTrainBlocks) }

\* The j-th smallest member of a set of integers
NthSmallest(S, j) == CHOOSE k \in S : Cardinality({m \in S : m < k}) = j - 1

\* The labeled files whose last blocks are at the positions ends of d
CutAt(d, ends) ==
    [j \in 1..Cardinality(ends) |->
        SubSeq(d, IF j = 1 THEN 1 ELSE NthSmallest(ends, j - 1) + 1, NthSmallest(ends, j))]

\* The labeled-data directories that hold the blocks d: every way of spreading
\* them over one or more non-empty JSON files
FilesOf(d) ==
    { CutAt(d, cuts \cup ({Len(d)} \ {0})) : cuts \in SUBSET (1..(Len(d) - 1)) }

RECURSIVE Extend(_)
\* all_blocks after all_blocks.extend(json.load(f)) for every file
Extend(files) == IF files = <<>> THEN <<>> ELSE Head(files) \o Extend(Tail(files))

(***************************************************************************)
(* extract_features: the left-to-right context scan and the feature matrix *)
(***************************************************************************)
\* Faulty variant of ScanStep: the context is recorded after the block's own label is read
ScanStepLate(info, block, idx, median) ==
    [ context |-> UpdateHeadingInfo(info, Get(block, "label", NONE), idx, block, median),
      next |-> UpdateHeadingInfo(info, Get(block, "label", NONE), idx, block, median) ]

\* Faulty variant of ScanStep: a block without a label counts as an H1 heading
ScanStepDefaultHeading(info, block, idx, median) ==
    [ context |-> info,
      next |-> UpdateHeadingInfo(info, Get(block, "label", H1), idx, block, median) ]

\* One iteration of the scan loop: the context recorded for block idx and the
\* context after it (heading_context.append(...) precedes the label test)
ScanStep(info, block, idx, median) ==
    [ context |-> info,
      next |-> UpdateHeadingInfo(info, Get(block, "label", NONE), idx, block, median) ]

RECURSIVE ScanFrom(_, _, _, _)
\* The remaining iterations of the scan loop, from Python index idx
ScanFrom(blocks, info, idx, median) ==
    IF idx >= Len(blocks) THEN <<>>
    ELSE LET st == ScanStep(info, blocks[idx + 1], idx, median)
         IN  <<st.context>> \o ScanFrom(blocks, st.next, idx + 1, median)

\* FeatureExtractor.extract_features
FullExtractFeatures(blocks) ==
    IF blocks = <<>> THEN [matrix |-> <<>>, font_map |-> <<>>]
    ELSE LET median == MedianFont(blocks)
             fmap == _get_font_mapping(blocks)
             ctx == ScanFrom(blocks, InitialHeadingInfo(median), 0, median)
         IN  [ matrix |-> [k \in 1..Len(blocks) |->
                            FullBlockFeatures(blocks[k], k - 1, median, fmap, ctx[k])],
               font_map |-> fmap ]

\* FeatureExtractorLite.extract_features
LiteExtractFeatures(blocks) ==
    IF blocks = <<>> THEN [matrix |-> <<>>, font_map |-> <<>>]
    ELSE LET median == MedianFont(blocks)
             fmap == _get_font_mapping(blocks)
             lang_map == _get_language_mapping(blocks)
             ctx == ScanFrom(blocks, InitialHeadingInfo(median), 0, median)
         IN  [ matrix |-> [k \in 1..Len(blocks) |->
                            LiteBlockFeatures(blocks[k], k - 1, median, fmap,
                                              lang_map, ctx[k])],
               font_map |-> fmap ]

(***************************************************************************)
(* Classifier (external), Rule Overlay, Outline Assembler                  *)
(***************************************************************************)
\* XGBClassifier(num_class=len(LABEL_MAPPING)) predicts a class id 0..num_class-1
ClassIds == 0..(Cardinality(DOMAIN LABEL_MAPPING) - 1)

\* model.predict on a matrix: any class ids a pure function may return, given the
\* part of its graph already observed
PredictionsOf(clf, matrix) ==
    { ps \in [1..Len(matrix) -> ClassIds] :
        /\ \A k \in 1..Len(matrix) : matrix[k] \in DOMAIN clf => ps[k] = clf[matrix[k]]
        /\ \A k, m \in 1..Len(matrix) : matrix[k] = matrix[m] => ps[k] = ps[m] }

\* The observed graph of the classifier after it returned ps for matrix
Observed(clf, matrix, ps) ==
    [v \in DOMAIN clf \cup {matrix[k] : k \in 1..Len(matrix)} |->
        IF v \in DOMAIN clf THEN clf[v]
        ELSE ps[CHOOSE k \in 1..Len(matrix) : matrix[k] = v]]

\* Faulty variant of PredictRule: the table override is missing
PredictRuleOff(block, predicted_label_int, label_map) == predicted_label_int

\* predict_outline step C: the table rule on the predicted class id
PredictRule(block, predicted_label_int, label_map) ==
    IF Get(block, "is_in_table", FALSE) THEN label_map[NONE] ELSE predicted_label_int

\* Faulty variant of BatchRule: the numeric test looks at the leading character only
BatchRuleLeadingDigit(block, label) ==
    IF Get(block, "is_in_table", FALSE)
       \/ (Strip(block["text"]) # <<>> /\ IsDigit(Strip(block["text"])[1]))
    THEN NONE ELSE label

\* process_all_pdfs step D: the label of a block after the business rules
BatchRule(block, label) ==
    IF Get(block, "is_in_table", FALSE) \/ IsDigitStr(Strip(block["text"]))
    THEN NONE ELSE label

\* Faulty variant of AssembleStep: a heading whose text is already in the outline is dropped
AssembleStepDedup(acc, block, label) ==
    [ title_parts |-> IF label = TITLE THEN Append(acc.title_parts, block["text"])
                      ELSE acc.title_parts,
      outline |-> IF StartsWith(label, <<"H">>)
                     /\ ~\E e \in 1..Len(acc.outline) : acc.outline[e].text = block["text"]
                  THEN Append(acc.outline, [level |-> label, text |-> block["text"],
                                            page |-> block["page_number"]])
                  ELSE acc.outline ]

\* One iteration of either assembly loop on a block with its final label
AssembleStep(acc, block, label) ==
    [ title_parts |-> IF label = TITLE THEN Append(acc.title_parts, block["text"])
                      ELSE acc.title_parts,
      outline |-> IF StartsWith(label, <<"H">>)
                  THEN Append(acc.outline, [level |-> label, text |-> block["text"],
                                            page |-> block["page_number"]])
                  ELSE acc.outline ]

RECURSIVE Assemble(_, _, _)
\* outline and title_parts after the first k iterations of the assembly loop
Assemble(blocks, labels, k) ==
    IF k = 0 THEN [title_parts |-> <<>>, outline |-> <<>>]
    ELSE AssembleStep(Assemble(blocks, labels, k - 1), blocks[k], labels[k])

DocumentTitleNotFound ==
    << "D", "o", "c", "u", "m", "e", "n", "t", " ", "T", "i", "t", "l", "e", " ",
       "N", "o", "t", " ", "F", "o", "u", "n", "d" >>

\* doc_title and final_output
FinalOutput(acc) ==
    [ title |-> IF acc.title_parts # <<>> THEN JoinWith(<<" ">>, acc.title_parts)
                ELSE DocumentTitleNotFound,
      outline |-> acc.outline ]

(***************************************************************************)
(* PdfExtractor.extract_enriched_blocks: pages, rulings and raw blocks     *)
(***************************************************************************)
\* fitz.Rect(x0, y0, x1, y1) and its width and height
Rect(x0, y0, x1, y1) == [x0 |-> x0, y0 |-> y0, x1 |-> x1, y1 |-> y1]
Width(r) == IF r.x1 > r.x0 THEN r.x1 - r.x0 ELSE 0
Height(r) == IF r.y1 > r.y0 THEN r.y1 - r.y0 ELSE 0

SetMin(S) == CHOOSE x \in S : \A y \in S : x <= y
SetMax(S) == CHOOSE x \in S : \A y \in S : y <= x

\* h_lines and v_lines: the drawings' rectangles that are rulings
h_lines(drawings) ==
    {drawings[k] : k \in {j \in 1..Len(drawings) :
                             Width(drawings[j]) > 30 /\ Height(drawings[j]) < 3}}
v_lines(drawings) ==
    {drawings[k] : k \in {j \in 1..Len(drawings) :
                             Height(drawings[j]) > 20 /\ Width(drawings[j]) < 3}}

\* PdfExtractor._get_table_bboxes_from_lines
_get_table_bboxes_from_lines(page) ==
    IF page.drawings = <<>> THEN <<>>
    ELSE IF h_lines(page.drawings) = {} \/ v_lines(page.drawings) = {} THEN <<>>
    ELSE << Rect(SetMin({l.x0 : l \in v_lines(page.drawings)}),
                 SetMin({l.y0 : l \in h_lines(page.drawings)}),
                 SetMax({l.x1 : l \in v_lines(page.drawings)}),
                 SetMax({l.y1 : l \in h_lines(page.drawings)})) >>

\* block_center in cell_bbox: the point ((x0 + x1) / 2, (y0 + y1) / 2) is inside
\* the rectangle (left and top edge included, right and bottom edge excluded)
CenterIn(bbox, cell_bbox) ==
    /\ 2 * cell_bbox.x0 <= bbox.x0 + bbox.x1 /\ bbox.x0 + bbox.x1 < 2 * cell_bbox.x1
    /\ 2 * cell_bbox.y0 <= bbox.y0 + bbox.y1 /\ bbox.y0 + bbox.y1 < 2 * cell_bbox.y1

RECURSIVE Flatten(_)
\* The spans of all lines of a block, in order
Flatten(lines) == IF lines = <<>> THEN <<>> ELSE Head(lines) \o Flatten(Tail(lines))

RECURSIVE CollapseSpaces(_)
\* re.sub(r'\s+', ' ', s)
CollapseSpaces(s) ==
    IF s = <<>> THEN <<>>
    ELSE IF Head(s) \in SpaceChars
         THEN <<" ">> \o CollapseSpaces(LStrip(s))
         ELSE <<Head(s)>> \o CollapseSpaces(Tail(s))

\* max(set(values), key=values.count)
MostCommon(values) ==
    LET count(v) == Cardinality({k \in 1..Len(values) : values[k] = v})
    IN  CHOOSE v \in {values[k] : k \in 1..Len(values)} :
            \A w \in {values[k] : k \in 1..Len(values)} : count(w) <= count(v)

\* PdfExtractor._process_block; <<>> stands for None
_process_block(block, page_no, tables) ==
    LET spans == Flatten(block.lines)
        text_parts == [k \in 1..Len(spans) |-> spans[k].text]
        block_text == Strip(CollapseSpaces(JoinWith(<<" ">>, text_parts)))
        is_in_table == \E c \in 1..Len(tables) : CenterIn(block.bbox, tables[c])
    IN  IF spans = <<>> THEN <<>>
        ELSE [ ProcessedBlock(block_text,
                              MostCommon([k \in 1..Len(spans) |-> spans[k].size]),
                              MostCommon([k \in 1..Len(spans) |-> spans[k].font]),
                              is_in_table, block.bbox.x0, block.bbox.y0,
                              block.bbox.x1, block.bbox.y1, page_no)
               EXCEPT !["line_count"] = Len(block.lines) ]

\* key=lambda b: (b['bbox'][1], b['bbox'][0])
KeyLess(a, b) ==
    a.bbox.y0 < b.bbox.y0 \/ (a.bbox.y0 = b.bbox.y0 /\ a.bbox.x0 < b.bbox.x0)

RECURSIVE InsertBlock(_, _)
\* x placed before the first block of s with a greater key
InsertBlock(x, s) ==
    IF s = <<>> THEN <<x>>
    ELSE IF KeyLess(x, Head(s)) THEN <<x>> \o s
    ELSE <<Head(s)>> \o InsertBlock(x, Tail(s))

\* Faulty variant of SortedBlocks: the blocks stay in the order of the file
UnsortedBlocks(blocks) == blocks

RECURSIVE SortedBlocks(_)
\* sorted(blocks, key=...): stable
SortedBlocks(blocks) ==
    IF blocks = <<>> THEN <<>>
    ELSE InsertBlock(blocks[Len(blocks)],
                     SortedBlocks(SubSeq(blocks, 1, Len(blocks) - 1)))

RECURSIVE KeptBlocks(_, _, _)
\* The inner loop over sorted_blocks: text blocks with lines whose processed
\* text is not empty
KeptBlocks(sorted_blocks, page_no, tables) ==
    IF sorted_blocks = <<>> THEN <<>>
    ELSE LET block == Head(sorted_blocks)
             processed_block == _process_block(block, page_no, tables)
             rest == KeptBlocks(Tail(sorted_blocks), page_no, tables)
         IN  IF block.type = 0 /\ block.lines # <<>>
                /\ processed_block # <<>> /\ processed_block["text"] # <<>>
             THEN <<processed_block>> \o rest
             ELSE rest

\* What one iteration of the page loop appends to all_blocks_data
PageBlocks(page, page_no) ==
    KeptBlocks(SortedBlocks(page.blocks), page_no, _get_table_bboxes_from_lines(page))

\* One span of text
Span(text, size, font) == [text |-> text, size |-> size, font |-> font]

\* Raw blocks of page.get_text("dict"): a heading, a right-hand paragraph with the
\* same top edge, a table cell of two spans, an image and a blank text block
RawIntro ==
    [type |-> 0, bbox |-> Rect(200, 100, 412, 136),
     lines |-> << <<Span(<<"I", "n", "t", "r", "o">>, 18, ArialBold)>> >>]
RawGo ==
    [type |-> 0, bbox |-> Rect(320, 100, 540, 124),
     lines |-> << <<Span(<<"1", ".", " ", "G", "o", ".">>, 12, Times)>> >>]
RawTotal ==
    [type |-> 0, bbox |-> Rect(120, 400, 200, 420),
     lines |-> << <<Span(<<"S", "u", "b">>, 10, Arial),
                    Span(<<" ", "t", "o", "t", "a", "l", " ">>, 10, Arial)>> >>]
RawImage == [type |-> 1, bbox |-> Rect(0, 0, 612, 90), lines |-> <<>>]
RawBlank ==
    [type |-> 0, bbox |-> Rect(72, 50, 80, 60),
     lines |-> << <<Span(<<" ">>, 10, Arial)>> >>]

\* Drawings: the four rulings of a closed grid, a horizontal ruling that reaches
\* beyond the grid, and a short stroke that is no ruling
GridTop == Rect(100, 390, 401, 391)
GridBottom == Rect(100, 450, 401, 451)
GridLeft == Rect(100, 390, 101, 451)
GridRight == Rect(400, 390, 401, 451)
WideRule == Rect(50, 420, 500, 421)
Stroke == Rect(10, 10, 20, 11)

\* The pages a document is made of; decodes = FALSE for a page whose content
\* stream cannot be decoded (page.get_text raises)
PageKinds ==
    << [decodes |-> TRUE, drawings |-> <<>>, blocks |-> <<RawGo, RawIntro>>],
       [decodes |-> TRUE, drawings |-> <<GridTop, GridBottom, GridLeft, GridRight>>,
        blocks |-> <<RawTotal, RawIntro>>],
       [decodes |-> TRUE, drawings |-> <<GridTop, GridLeft, WideRule, GridRight>>,
        blocks |-> <<RawIntro, RawTotal>>],
       [decodes |-> TRUE, drawings |-> <<GridTop, Stroke>>,
        blocks |-> <<RawImage, RawBlank, RawTotal>>],
       [decodes |-> FALSE, drawings |-> <<>>, blocks |-> <<RawIntro>>] >>

MaxPages == 2

\* The PDF files given to extract_enriched_blocks: at most MaxPages pages
PdfDocuments ==
    { [k \in 1..Len(ps) |-> PageKinds[ps[k]]] : ps \in SeqsUpTo(1..Len(PageKinds), MaxPages) }

(***************************************************************************)
(* Bundles and files                                                       *)
(***************************************************************************)
BundleKeys == {"model", "font_map", "label_mapping", "feature_names"}

\* The bundle run_training dumps: model_bundle = {...}
TrainedBundle(fmap) ==
    [ exists |-> TRUE, keys |-> BundleKeys, font_map |-> fmap,
      label_mapping |-> LABEL_MAPPING, feature_names |-> LiteFeatureNames ]

\* What may be found at model_path: a bundle run_training wrote (trained on blocks
\* in Arial and Times), the same file with a key missing, or no file
BundleFiles ==
    LET b == TrainedBundle(DenseIds({Arial, Times}))
    IN  { b,
          [b EXCEPT !.keys = BundleKeys \ {"label_mapping"}],
          [b EXCEPT !.keys = BundleKeys \ {"font_map"}],
          [b EXCEPT !.exists = FALSE] }

\* joblib.load and the key lookups of the try block succeed
LoadsWith(bundle, needed) == bundle.exists /\ needed \subseteq bundle.keys

\* The message of the except clause that catches the failed load
FatalError(bundle) ==
    IF bundle.exists THEN "Could not load model bundle" ELSE "Model file not found"

PdfName == <<"d", ".", "p", "d", "f">>

APdf == <<"a", ".", "p", "d", "f">>
BPdf == <<"B", ".", "P", "D", "F">>
EPdf == <<"e", ".", "p", "d", "f">>
NTxt == <<"n", ".", "t", "x", "t">>

\* The files of the batch input directory
BatchFiles ==
    (APdf :> ExtractedBlocks(<<1, 3>>)) @@ (BPdf :> ExtractedBlocks(<<2, 4>>))
    @@ (EPdf :> <<>>) @@ (NTxt :> <<>>)

MaxDocs == 2

\* os.listdir: the names of at most MaxDocs files, in arbitrary order
Listings ==
    { l \in SeqsUpTo(DOMAIN BatchFiles, MaxDocs) :
        \A a, b \in 1..Len(l) : a # b => l[a] # l[b] }

\* os.path.splitext(name)[0]
SplitExtRoot(name) ==
    LET dots == {k \in 1..Len(name) : name[k] = "."}
        last == CHOOSE k \in dots : \A m \in dots : m <= k
    IN  IF dots = {} \/ (\A k \in 1..(last - 1) : name[k] = ".") THEN name
        ELSE SubSeq(name, 1, last - 1)

\* output_filename
OutputFilename(name) == SplitExtRoot(name) \o <<".", "j", "s", "o", "n">>

\* pdf_filename.lower().endswith('.pdf')
IsPdf(name) == EndsWith(Lower(name), <<".", "p", "d", "f">>)

(***************************************************************************)
(* Initial states                                                          *)
(***************************************************************************)
InitLocals ==
    /\ model = <<>>
    /\ pos = 1
    /\ extracted = <<>>
    /\ font_map = <<>>
    /\ median_font = Float(0)
    /\ i = 0
    /\ last_heading_info = InitialHeadingInfo(Float(0))
    /\ heading_context = <<>>
    /\ features_matrix = <<>>
    /\ raw_predictions = <<>>
    /\ predictions = <<>>
    /\ final_labels = <<>>
    /\ assembled = <<>>
    /\ outline = <<>>
    /\ title_parts = <<>>
    /\ output = <<>>
    /\ out_files = [created |-> FALSE, files |-> <<>>]
    /\ log = <<>>
    /\ fatal = ""
    /\ pages_read = 0
    /\ table_bboxes = <<>>

\* FeatureExtractor.extract_features, or run_training, on labeled data
InitTrain ==
    /\ mode \in {"extract_features", "run_training"}
    /\ model_bundle = [TrainedBundle(<<>>) EXCEPT !.exists = FALSE]
    /\ pdfs = <<>>
    /\ pdf_dir = <<>>
    /\ doc = <<>>
    /\ \E d \in LabeledDocuments :
          IF mode = "extract_features"
          THEN labeled_files = <<>> /\ all_blocks = d /\ pc = "start"
          ELSE labeled_files \in FilesOf(d) /\ all_blocks = <<>> /\ pc = "read"
    /\ InitLocals

\* predict_outline(pdf_path, model_path)
InitPredict ==
    /\ mode = "predict_outline"
    /\ pc = "load"
    /\ model_bundle \in BundleFiles
    /\ pdfs \in {(PdfName :> d) : d \in Documents}
    /\ pdf_dir = <<PdfName>>
    /\ all_blocks = <<>>
    /\ labeled_files = <<>>
    /\ doc = <<>>
    /\ InitLocals

\* process_all_pdfs(pdf_dir, model_path, output_dir)
InitBatch ==
    /\ mode = "process_all_pdfs"
    /\ pc = "load"
    /\ model_bundle \in BundleFiles
    /\ pdfs = BatchFiles
    /\ pdf_dir \in Listings
    /\ labeled_files = <<>>
    /\ doc = <<>>
    /\ all_blocks = <<>>
    /\ InitLocals

\* PdfExtractor().extract_enriched_blocks(pdf_path)
InitExtract ==
    /\ mode = "extract_enriched_blocks"
    /\ pc = "open"
    /\ model_bundle = [TrainedBundle(<<>>) EXCEPT !.exists = FALSE]
    /\ pdfs = <<>>
    /\ pdf_dir = <<>>
    /\ all_blocks = <<>>
    /\ labeled_files = <<>>
    /\ doc \in PdfDocuments
    /\ InitLocals

Init == InitTrain \/ InitPredict \/ InitBatch \/ InitExtract

(***************************************************************************)
(* extract_features / run_training                                         *)
(***************************************************************************)
inputs == <<mode, pdfs, pdf_dir, labeled_files, doc>>
extraction == <<pages_read, table_bboxes>>
inference == <<pos, extracted, raw_predictions, predictions, final_labels, assembled, outline,
               title_parts, output, out_files, log, model>>

\* run_training: the labeled JSON files are read into one all_blocks list
TrainRead ==
    /\ mode = "run_training"
    /\ pc = "read"
    /\ all_blocks' = Extend(labeled_files)
    /\ pc' = "start"
    /\ UNCHANGED <<i, median_font, font_map, last_heading_info, heading_context,
                   features_matrix, model_bundle>>
    /\ UNCHANGED <<inputs, inference, extraction, fatal>>

\* The empty-input returns, then median_font, font_map and the initial context
ScanBegin ==
    /\ mode \in {"extract_features", "run_training"}
    /\ pc = "start"
    /\ IF all_blocks = <<>>
       THEN /\ pc' = "done"
            /\ UNCHANGED <<median_font, font_map, last_heading_info>>
       ELSE /\ pc' = "scan"
            /\ median_font' = MedianFont(all_blocks)
            /\ font_map' = _get_font_mapping(all_blocks)
            /\ last_heading_info' = InitialHeadingInfo(MedianFont(all_blocks))
    /\ UNCHANGED <<i, heading_context, features_matrix, all_blocks, model_bundle>>
    /\ UNCHANGED <<inputs, inference, extraction, fatal>>

\* for i, block in enumerate(all_blocks): one iteration
ScanLoop ==
    /\ mode \in {"extract_features", "run_training"}
    /\ pc = "scan"
    /\ i < Len(all_blocks)
    /\ LET st == ScanStep(last_heading_info, all_blocks[i + 1], i, median_font)
       IN  /\ heading_context' = Append(heading_context, st.context)
           /\ last_heading_info' = st.next
    /\ i' = i + 1
    /\ UNCHANGED <<pc, median_font, font_map, features_matrix, all_blocks, model_bundle>>
    /\ UNCHANGED <<inputs, inference, extraction, fatal>>

\* features_matrix = [...]: every block with the context recorded for it
BuildMatrix ==
    /\ mode \in {"extract_features", "run_training"}
    /\ pc = "scan"
    /\ i = Len(all_blocks)
    /\ features_matrix' =
         [k \in 1..Len(all_blocks) |->
            IF mode = "extract_features"
            THEN FullBlockFeatures(all_blocks[k], k - 1, median_font, font_map,
                                   heading_context[k])
            ELSE LiteBlockFeatures(all_blocks[k], k - 1, median_font, font_map,
                                   _get_language_mapping(all_blocks),
                                   heading_context[k])]
    /\ pc' = IF mode = "run_training" THEN "fit" ELSE "done"
    /\ UNCHANGED <<i, median_font, font_map, last_heading_info, heading_context,
                   all_blocks, model_bundle>>
    /\ UNCHANGED <<inputs, inference, extraction, fatal>>

\* run_training: model.fit, then the bundle is dumped
SaveBundle ==
    /\ mode = "run_training"
    /\ pc = "fit"
    /\ model_bundle' = TrainedBundle(font_map)
    /\ pc' = "done"
    /\ UNCHANGED <<i, median_font, font_map, last_heading_info, heading_context,
                   features_matrix, all_blocks>>
    /\ UNCHANGED <<inputs, inference, extraction, fatal>>

(***************************************************************************)
(* predict_outline                                                         *)
(***************************************************************************)
\* Step 1: load the bundle; an exception is reported and the function returns
PredictLoad ==
    /\ mode = "predict_outline"
    /\ pc = "load"
    /\ IF LoadsWith(model_bundle, {"model", "font_map", "label_mapping"})
       THEN pc' = "extract" /\ font_map' = model_bundle.font_map /\ UNCHANGED fatal
       ELSE pc' = "done" /\ fatal' = FatalError(model_bundle) /\ UNCHANGED font_map
    /\ UNCHANGED <<i, median_font, last_heading_info, heading_context,
                   features_matrix, all_blocks, model_bundle>>
    /\ UNCHANGED <<inputs, inference, extraction>>

\* Step 2 and the head of step 3: extraction, the empty-document return,
\* median_font and the initial context
PredictExtract ==
    /\ mode = "predict_outline"
    /\ pc = "extract"
    /\ extracted' = Append(extracted, pdf_dir[1])
    /\ all_blocks' = pdfs[pdf_dir[1]]
    /\ IF pdfs[pdf_dir[1]] = <<>>
       THEN /\ pc' = "done"
            /\ UNCHANGED <<median_font, last_heading_info>>
       ELSE /\ pc' = "loop"
            /\ median_font' = MedianFont(pdfs[pdf_dir[1]])
            /\ last_heading_info' = InitialHeadingInfo(MedianFont(pdfs[pdf_dir[1]]))
    /\ UNCHANGED <<i, font_map, heading_context, features_matrix, model_bundle, pos,
                   raw_predictions, predictions, final_labels, assembled, outline, title_parts,
                   output, out_files, log, model>>
    /\ UNCHANGED <<inputs, extraction, fatal>>

\* extract_enriched_blocks raises (fitz.open on an unreadable file): uncaught
PredictExtractRaises ==
    /\ mode = "predict_outline"
    /\ pc = "extract"
    /\ extracted' = Append(extracted, pdf_dir[1])
    /\ pc' = "crashed"
    /\ UNCHANGED <<i, font_map, median_font, last_heading_info, heading_context,
                   features_matrix, all_blocks, model_bundle, pos, raw_predictions,
                   predictions, final_labels, assembled, outline, title_parts, output,
                   out_files, log, model>>
    /\ UNCHANGED <<inputs, extraction, fatal>>

\* One iteration of the classification loop: steps A to E
PredictIteration ==
    /\ mode = "predict_outline"
    /\ pc = "loop"
    /\ i < Len(all_blocks)
    /\ LET block == all_blocks[i + 1]
           current_features ==
               FullBlockFeatures(block, i, median_font, font_map, last_heading_info)
       IN  \E ps \in PredictionsOf(model, <<current_features>>) :
             LET predicted_label_int ==
                     PredictRule(block, ps[1], model_bundle.label_mapping)
                 predicted_label_str ==
                     InverseLabelMap(model_bundle.label_mapping)[predicted_label_int]
             IN  /\ features_matrix' = Append(features_matrix, current_features)
                 /\ heading_context' = Append(heading_context, last_heading_info)
                 /\ model' = Observed(model, <<current_features>>, ps)
                 /\ raw_predictions' = Append(raw_predictions, ps[1])
                 /\ predictions' = Append(predictions, predicted_label_int)
                 /\ last_heading_info' =
                        UpdateHeadingInfo(last_heading_info, predicted_label_str, i,
                                          block, median_font)
    /\ i' = i + 1
    /\ UNCHANGED <<pc, font_map, median_font, all_blocks, model_bundle, pos, extracted,
                   final_labels, assembled, outline, title_parts, output, out_files, log>>
    /\ UNCHANGED <<inputs, extraction, fatal>>

\* model.predict raises on the vector (uncaught): the run ends without output
PredictIterationRaises ==
    /\ mode = "predict_outline"
    /\ pc = "loop"
    /\ i < Len(all_blocks)
    /\ features_matrix' =
         Append(features_matrix,
                FullBlockFeatures(all_blocks[i + 1], i, median_font, font_map,
                                  last_heading_info))
    /\ heading_context' = Append(heading_context, last_heading_info)
    /\ pc' = "crashed"
    /\ UNCHANGED <<i, font_map, median_font, last_heading_info, all_blocks,
                   model_bundle>>
    /\ UNCHANGED <<inputs, inference, extraction, fatal>>

\* Steps 4 and 5: the assembly loop, doc_title, final_output, and its emission
PredictAssemble ==
    /\ mode = "predict_outline"
    /\ pc = "loop"
    /\ i = Len(all_blocks)
    /\ LET inverse_label_map == InverseLabelMap(model_bundle.label_mapping)
           labels == [k \in 1..Len(all_blocks) |-> inverse_label_map[predictions[k]]]
           acc == Assemble(all_blocks, labels, Len(all_blocks))
       IN  /\ final_labels' = labels
           /\ assembled' = all_blocks
           /\ outline' = acc.outline
           /\ title_parts' = acc.title_parts
           /\ output' = Append(output, FinalOutput(acc))
    /\ pc' = "done"
    /\ UNCHANGED <<i, font_map, median_font, last_heading_info, heading_context,
                   features_matrix, all_blocks, model_bundle, pos, extracted,
                   raw_predictions, predictions, out_files, log, model>>
    /\ UNCHANGED <<inputs, extraction, fatal>>

(***************************************************************************)
(* process_all_pdfs                                                        *)
(***************************************************************************)
\* Steps 1 and 2: load the bundle, then create the output directory
BatchLoad ==
    /\ mode = "process_all_pdfs"
    /\ pc = "load"
    /\ IF LoadsWith(model_bundle, {"model", "label_mapping"})
       THEN /\ pc' = "loop"
            /\ out_files' = [out_files EXCEPT !.created = TRUE]
            /\ UNCHANGED fatal
       ELSE /\ pc' = "done"
            /\ fatal' = FatalError(model_bundle)
            /\ UNCHANGED out_files
    /\ UNCHANGED <<i, font_map, median_font, last_heading_info, heading_context,
                   features_matrix, all_blocks, model_bundle, pos, extracted,
                   raw_predictions, predictions, final_labels, assembled, outline, title_parts,
                   output, log, model>>
    /\ UNCHANGED <<inputs, extraction>>

\* The loop is positioned on a file whose name ends in .pdf
AtPdf == mode = "process_all_pdfs" /\ pc = "loop" /\ pos <= Len(pdf_dir)
         /\ IsPdf(pdf_dir[pos])

\* if not pdf_filename.lower().endswith('.pdf'): continue
BatchSkipOther ==
    /\ mode = "process_all_pdfs"
    /\ pc = "loop"
    /\ pos <= Len(pdf_dir)
    /\ ~IsPdf(pdf_dir[pos])
    /\ pos' = pos + 1
    /\ UNCHANGED <<pc, i, font_map, median_font, last_heading_info, heading_context,
                   features_matrix, all_blocks, model_bundle, extracted,
                   raw_predictions, predictions, final_labels, assembled, outline, title_parts,
                   output, out_files, log, model>>
    /\ UNCHANGED <<inputs, extraction, fatal>>

\* Faulty variant of Reported: the failure is printed and ends the loop
ReportedAndStops(name) == log' = Append(log, name) /\ pos' = Len(pdf_dir) + 1

\* except Exception as e: the failure is printed with pdf_filename, the loop goes on
Reported(name) == log' = Append(log, name) /\ pos' = pos + 1

\* A: extract_enriched_blocks was called and returned
Extracted(name) ==
    /\ extracted' = Append(extracted, name)
    /\ all_blocks' = pdfs[name]

\* B: what extract_features computed for the blocks
Featurized(blocks) ==
    LET median == MedianFont(blocks)
    IN  /\ features_matrix' = LiteExtractFeatures(blocks).matrix
        /\ font_map' = LiteExtractFeatures(blocks).font_map
        /\ median_font' = median
        /\ heading_context' = ScanFrom(blocks, InitialHeadingInfo(median), 0, median)
        /\ last_heading_info' =
             IF Len(blocks) = 0 THEN InitialHeadingInfo(median)
             ELSE ScanStep(ScanFrom(blocks, InitialHeadingInfo(median), 0,
                                    median)[Len(blocks)],
                           blocks[Len(blocks)], Len(blocks) - 1, median).next

\* C: model.predict(feature_matrix) returned ps
Predicted(matrix, ps) ==
    /\ predictions' = ps
    /\ raw_predictions' = ps
    /\ model' = Observed(model, matrix, ps)

\* The label of every block after inverse_label_map.get and the business rules
BatchLabels(blocks, ps, label_mapping) ==
    [k \in 1..Len(blocks) |->
        BatchRule(blocks[k], Get(InverseLabelMap(label_mapping), ps[k], NONE))]

\* D: outline, title_parts = [], [] and the loop over the blocks
Assembled(blocks, labels) ==
    /\ final_labels' = labels
    /\ assembled' = blocks
    /\ outline' = Assemble(blocks, labels, Len(blocks)).outline
    /\ title_parts' = Assemble(blocks, labels, Len(blocks)).title_parts

\* One iteration in which extract_enriched_blocks raises
BatchExtractRaises ==
    /\ AtPdf
    /\ extracted' = Append(extracted, pdf_dir[pos])
    /\ Reported(pdf_dir[pos])
    /\ UNCHANGED <<pc, i, font_map, median_font, last_heading_info, heading_context,
                   features_matrix, all_blocks, model_bundle, raw_predictions,
                   predictions, final_labels, assembled, outline, title_parts, output,
                   out_files, model>>
    /\ UNCHANGED <<inputs, extraction, fatal>>

\* One iteration on a document without blocks: "Skipping", continue
BatchNoBlocks ==
    /\ AtPdf
    /\ pdfs[pdf_dir[pos]] = <<>>
    /\ Extracted(pdf_dir[pos])
    /\ pos' = pos + 1
    /\ UNCHANGED <<pc, i, font_map, median_font, last_heading_info, heading_context,
                   features_matrix, model_bundle, raw_predictions, predictions,
                   final_labels, assembled, outline, title_parts, output, out_files, log, model>>
    /\ UNCHANGED <<inputs, extraction, fatal>>

\* One iteration in which extract_features raises
BatchFeaturesRaise ==
    /\ AtPdf
    /\ pdfs[pdf_dir[pos]] # <<>>
    /\ Extracted(pdf_dir[pos])
    /\ Reported(pdf_dir[pos])
    /\ UNCHANGED <<pc, i, font_map, median_font, last_heading_info, heading_context,
                   features_matrix, model_bundle, raw_predictions, predictions,
                   final_labels, assembled, outline, title_parts, output, out_files, model>>
    /\ UNCHANGED <<inputs, extraction, fatal>>

\* One iteration in which model.predict raises
BatchPredictRaises ==
    /\ AtPdf
    /\ pdfs[pdf_dir[pos]] # <<>>
    /\ Extracted(pdf_dir[pos])
    /\ Featurized(pdfs[pdf_dir[pos]])
    /\ Reported(pdf_dir[pos])
    /\ UNCHANGED <<pc, i, model_bundle, raw_predictions, predictions, final_labels,
                   assembled, outline, title_parts, output, out_files, model>>
    /\ UNCHANGED <<inputs, extraction, fatal>>

\* One iteration in which writing the output file raises
BatchWriteRaises ==
    /\ AtPdf
    /\ pdfs[pdf_dir[pos]] # <<>>
    /\ Extracted(pdf_dir[pos])
    /\ Featurized(pdfs[pdf_dir[pos]])
    /\ \E ps \in PredictionsOf(model, LiteExtractFeatures(pdfs[pdf_dir[pos]]).matrix) :
          /\ Predicted(LiteExtractFeatures(pdfs[pdf_dir[pos]]).matrix, ps)
          /\ Assembled(pdfs[pdf_dir[pos]],
                       BatchLabels(pdfs[pdf_dir[pos]], ps, model_bundle.label_mapping))
    /\ Reported(pdf_dir[pos])
    /\ UNCHANGED <<pc, i, model_bundle, output, out_files>>
    /\ UNCHANGED <<inputs, extraction, fatal>>

\* One iteration that saves the prediction of the document
BatchSaves ==
    /\ AtPdf
    /\ pdfs[pdf_dir[pos]] # <<>>
    /\ Extracted(pdf_dir[pos])
    /\ Featurized(pdfs[pdf_dir[pos]])
    /\ \E ps \in PredictionsOf(model, LiteExtractFeatures(pdfs[pdf_dir[pos]]).matrix) :
          LET blocks == pdfs[pdf_dir[pos]]
              labels == BatchLabels(blocks, ps, model_bundle.label_mapping)
          IN  /\ Predicted(LiteExtractFeatures(blocks).matrix, ps)
              /\ Assembled(blocks, labels)
              /\ out_files' =
                   [out_files EXCEPT !.files =
                        (OutputFilename(pdf_dir[pos]) :>
                            FinalOutput(Assemble(blocks, labels, Len(blocks)))) @@ @]
    /\ pos' = pos + 1
    /\ UNCHANGED <<pc, i, model_bundle, output, log>>
    /\ UNCHANGED <<inputs, extraction, fatal>>

\* The listing is exhausted: "Batch Prediction Complete"
BatchComplete ==
    /\ mode = "process_all_pdfs"
    /\ pc = "loop"
    /\ pos > Len(pdf_dir)
    /\ pc' = "done"
    /\ UNCHANGED <<i, font_map, median_font, last_heading_info, heading_context,
                   features_matrix, all_blocks, model_bundle>>
    /\ UNCHANGED <<inputs, inference, extraction, fatal>>

(***************************************************************************)
(* PdfExtractor.extract_enriched_blocks                                    *)
(***************************************************************************)
scan == <<i, font_map, median_font, last_heading_info, heading_context, features_matrix,
          model_bundle>>

\* doc = fitz.open(pdf_path); all_blocks_data = []
ExtractOpen ==
    /\ mode = "extract_enriched_blocks"
    /\ pc = "open"
    /\ pc' = "pages"
    /\ UNCHANGED <<all_blocks, scan, inputs, inference, extraction, fatal>>

\* fitz.open raises on a missing or unreadable file: the call raises
ExtractOpenRaises ==
    /\ mode = "extract_enriched_blocks"
    /\ pc = "open"
    /\ pc' = "crashed"
    /\ UNCHANGED <<all_blocks, scan, inputs, inference, extraction, fatal>>

\* for page_num, page in enumerate(doc, 1): one iteration
ExtractPage ==
    /\ mode = "extract_enriched_blocks"
    /\ pc = "pages"
    /\ pages_read < Len(doc)
    /\ doc[pages_read + 1].decodes
    /\ table_bboxes' = _get_table_bboxes_from_lines(doc[pages_read + 1])
    /\ all_blocks' = all_blocks \o PageBlocks(doc[pages_read + 1], pages_read + 1)
    /\ pages_read' = pages_read + 1
    /\ UNCHANGED <<pc, scan, inputs, inference, fatal>>

\* page.get_text raises on the page: nothing catches it, the call raises
ExtractPageRaises ==
    /\ mode = "extract_enriched_blocks"
    /\ pc = "pages"
    /\ pages_read < Len(doc)
    /\ ~doc[pages_read + 1].decodes
    /\ pc' = "crashed"
    /\ UNCHANGED <<all_blocks, scan, inputs, inference, extraction, fatal>>

\* return self._post_process_spacing(all_blocks_data)
ExtractReturn ==
    /\ mode = "extract_enriched_blocks"
    /\ pc = "pages"
    /\ pages_read = Len(doc)
    /\ all_blocks' = _post_process_spacing(all_blocks)
    /\ pc' = "done"
    /\ UNCHANGED <<scan, inputs, inference, extraction, fatal>>

(***************************************************************************)
(* Specifications                                                          *)
(***************************************************************************)
Next ==
    \/ TrainRead \/ ScanBegin \/ ScanLoop \/ BuildMatrix \/ SaveBundle
    \/ PredictLoad \/ PredictExtract \/ PredictExtractRaises
    \/ PredictIteration \/ PredictIterationRaises \/ PredictAssemble
    \/ BatchLoad \/ BatchSkipOther \/ BatchExtractRaises \/ BatchNoBlocks
    \/ BatchFeaturesRaise \/ BatchPredictRaises \/ BatchWriteRaises \/ BatchSaves
    \/ BatchComplete
    \/ ExtractOpen \/ ExtractOpenRaises \/ ExtractPage \/ ExtractPageRaises
    \/ ExtractReturn

Spec == Init /\ [][Next]_vars

(***************************************************************************)
(* Properties                                                              *)
(***************************************************************************)
Training == mode \in {"extract_features", "run_training"}
Predicting == mode = "predict_outline"
Batching == mode = "process_all_pdfs"

\* The resolved label of block j (1-based): ground truth in training, the
\* rule-corrected prediction in sequential inference
ResolvedLabel(j) ==
    IF Predicting THEN InverseLabelMap(model_bundle.label_mapping)[predictions[j]]
    ELSE Get(all_blocks[j], "label", NONE)

InTable(block) == Get(block, "is_in_table", FALSE)

PerturbedLabels == {NONE, H2, <<"H", "a", "b", "c">>}

\* all_blocks with the resolved labels before position k and the given labels from k on
Relabelled(k, suffix) ==
    [j \in 1..Len(all_blocks) |->
        SetKey(all_blocks[j], "label", IF j < k THEN ResolvedLabel(j) ELSE suffix[j])]

\* C1: context causality.  In the training scan and in the sequential inference
\* loop, the context used to featurize block k is the one the scan yields from the
\* resolved labels of the blocks before k, whatever labels block k and the later
\* blocks are given.
C1_ContextCausality ==
    (Training \/ Predicting) =>
        \A k \in 1..Len(heading_context) :
            \A suffix \in [k..Len(all_blocks) -> PerturbedLabels] :
                ScanFrom(Relabelled(k, suffix), InitialHeadingInfo(median_font), 0,
                         median_font)[k] = heading_context[k]

\* C1 witness: the second block was featurized with the first block's heading as
\* context although it was itself resolved to a heading of another level
C1_Witness ==
    /\ Predicting
    /\ Len(predictions) = 2
    /\ heading_context[2].index = 0
    /\ heading_context[2].level = 2
    /\ ResolvedLabel(2) = H1

\* The level a label denotes, 0 for a label that is no well-formed heading
LevelOf(label) ==
    CASE label = H1 -> 1
      [] label = H2 -> 2
      [] label = H3 -> 3
      [] label = H4 -> 4
      [] label = <<"H", "1", "2">> -> 12
      [] OTHER -> 0

\* C2, one step: the tracker starts at (-1, 0, median); resolving the label of
\* block i moves it to (i, L, font size of block i) for a heading of level L and
\* leaves it alone for any other label; a table block of the inference loop is
\* resolved to NONE and leaves it alone; no other step touches it.
C2_Step ==
    (Training \/ Predicting) =>
        IF pc \in {"start", "extract"} /\ pc' \in {"scan", "loop"}
        THEN last_heading_info' =
                 [index |-> 0 - 1, level |-> 0, font_size |-> median_font']
        ELSE IF i' = i + 1
        THEN LET block == all_blocks[i + 1]
                 label == IF Predicting
                          THEN InverseLabelMap(model_bundle.label_mapping)[predictions'[i + 1]]
                          ELSE Get(block, "label", NONE)
             IN  /\ last_heading_info' =
                        IF LevelOf(label) > 0
                        THEN [index |-> i, level |-> LevelOf(label),
                              font_size |-> Float(block["font_size"])]
                        ELSE last_heading_info
                 /\ (Predicting /\ InTable(block)) =>
                        label = NONE /\ last_heading_info' = last_heading_info
        ELSE last_heading_info' = last_heading_info

\* C2: the Context Tracker transition holds of every step
C2_ContextTransition == [][C2_Step]_vars

\* C2 witness: block 0 was labeled H2, block 1 carries the malformed token "Habc",
\* and after both the context is still that of block 0
C2_Witness ==
    /\ Training
    /\ i = 2
    /\ Get(all_blocks[1], "label", NONE) = H2
    /\ Get(all_blocks[2], "label", NONE) = <<"H", "a", "b", "c">>
    /\ last_heading_info =
         [index |-> 0, level |-> 2, font_size |-> Float(all_blocks[1]["font_size"])]

\* The emitted JSON objects together with the blocks of the document each is for
Emitted ==
    IF Predicting THEN {[doc |-> all_blocks, json |-> output[k]] : k \in 1..Len(output)}
    ELSE {[doc |-> pdfs[n], json |-> out_files.files[OutputFilename(n)]] :
            n \in {m \in DOMAIN pdfs : OutputFilename(m) \in DOMAIN out_files.files}}

\* The block has an entry in the outline, or contributes to the title
InOutline(block, json) ==
    \E k \in 1..Len(json.outline) :
        /\ json.outline[k].text = block["text"]
        /\ json.outline[k].page = block["page_number"]
InTitle(block, json) ==
    json.title # DocumentTitleNotFound /\ Contains(json.title, block["text"])

\* C3: table-membership rule.  In predict_outline and in process_all_pdfs a block
\* flagged is_in_table has final label NONE whatever the classifier predicted, has
\* no outline entry and contributes nothing to the title.
C3_TableRule ==
    /\ Predicting =>
        \A k \in 1..Len(predictions) :
            InTable(all_blocks[k]) => ResolvedLabel(k) = NONE
    /\ (Predicting \/ Batching) =>
        /\ \A k \in 1..Len(final_labels) :
              InTable(assembled[k]) =>
                  /\ final_labels[k] = NONE
                  /\ \A e \in 1..Len(outline) : outline[e].text # assembled[k]["text"]
                  /\ \A t \in 1..Len(title_parts) : title_parts[t] # assembled[k]["text"]
        /\ \A em \in Emitted :
              \A k \in 1..Len(em.doc) :
                  InTable(em.doc[k]) =>
                      ~InOutline(em.doc[k], em.json) /\ ~InTitle(em.doc[k], em.json)

\* C3 witness: the classifier predicted H2 for a table block of a document whose
\* outline was emitted
C3_Witness ==
    /\ Predicting
    /\ output # <<>>
    /\ \E k \in 1..Len(all_blocks) :
          /\ InTable(all_blocks[k])
          /\ raw_predictions[k] = LABEL_MAPPING[H2]
          /\ final_labels[k] = NONE

DigitOnly(block) == IsDigitStr(Strip(block["text"]))

\* C4: numeric-only rule.  In predict_outline and in process_all_pdfs a block whose
\* trimmed text is all digits has final label NONE whatever the classifier
\* predicted, has no outline entry and contributes nothing to the title.
C4_NumericOnlyRule ==
    (Predicting \/ Batching) =>
        /\ \A k \in 1..Len(final_labels) :
              DigitOnly(assembled[k]) => final_labels[k] = NONE
        /\ \A em \in Emitted :
              \A k \in 1..Len(em.doc) :
                  DigitOnly(em.doc[k]) =>
                      ~InOutline(em.doc[k], em.json) /\ ~InTitle(em.doc[k], em.json)

\* The label the classifier's class id stands for
ClassifierLabel(k) ==
    Get(InverseLabelMap(model_bundle.label_mapping), raw_predictions[k], NONE)

\* C5: the Rule Overlay is idempotent and never upgrades.  Applying the overlay of
\* either inference path to the labels it produced changes nothing; every final
\* label is the classifier's label or NONE, and it is the classifier's label for a
\* block that is neither in a table nor digit-only.
C5_OverlayIdempotent ==
    /\ Predicting =>
        \A k \in 1..Len(predictions) :
            /\ PredictRule(all_blocks[k], predictions[k], model_bundle.label_mapping)
                 = predictions[k]
            /\ ResolvedLabel(k) \in {ClassifierLabel(k), NONE}
            /\ (~InTable(all_blocks[k]) /\ ~DigitOnly(all_blocks[k])) =>
                 ResolvedLabel(k) = ClassifierLabel(k)
    /\ (Predicting \/ Batching) =>
        \A k \in 1..Len(final_labels) :
            /\ Batching => BatchRule(assembled[k], final_labels[k]) = final_labels[k]
            /\ final_labels[k] \in {ClassifierLabel(k), NONE}
            /\ (~InTable(assembled[k]) /\ ~DigitOnly(assembled[k])) =>
                 final_labels[k] = ClassifierLabel(k)

\* C5 witness: batch inference left the H1 predicted for a plain block alone and
\* turned the TITLE predicted for a table block into NONE
C5_Witness ==
    /\ Batching
    /\ Len(final_labels) = 2
    /\ ~InTable(assembled[1]) /\ ~DigitOnly(assembled[1])
    /\ ClassifierLabel(1) = H1 /\ final_labels[1] = H1
    /\ InTable(assembled[2])
    /\ ClassifierLabel(2) = TITLE /\ final_labels[2] = NONE

\* The declared feature-name list of the extractor the running entry point uses
DeclaredFeatureNames ==
    IF mode \in {"extract_features", "predict_outline"} THEN FullFeatureNames
    ELSE LiteFeatureNames

\* C6: every feature vector has the length of the declared feature-name list of
\* its extractor.
C6_VectorLength ==
    \A k \in 1..Len(features_matrix) :
        Len(features_matrix[k]) = Len(DeclaredFeatureNames)

HeadingLabels == {H1, H2, H3, H4}

\* The positions carrying a label of S, and the j-th of them in increasing order
Positions(labels, S) == {k \in 1..Len(labels) : labels[k] \in S}
NthOf(P, j) == CHOOSE k \in P : Cardinality({m \in P : m < k}) = j - 1

\* outline and parts are the filter-and-project of the labeled blocks
FilterProject(blocks, labels, parts, entries) ==
    LET hs == Positions(labels, HeadingLabels)
        ts == Positions(labels, {TITLE})
    IN  /\ Len(entries) = Cardinality(hs)
        /\ \A j \in 1..Len(entries) :
              entries[j] = [level |-> labels[NthOf(hs, j)],
                            text |-> blocks[NthOf(hs, j)]["text"],
                            page |-> blocks[NthOf(hs, j)]["page_number"]]
        /\ parts = [j \in 1..Cardinality(ts) |-> blocks[NthOf(ts, j)]["text"]]

\* The JSON object made of the assembler's locals
LocalsJson ==
    [ title |-> IF title_parts = <<>> THEN DocumentTitleNotFound
                ELSE JoinWith(<<" ">>, title_parts),
      outline |-> outline ]

\* The batch loop has just saved the prediction of the file before pos
JustSaved ==
    /\ Batching /\ pos > 1
    /\ IsPdf(pdf_dir[pos - 1])
    /\ pdfs[pdf_dir[pos - 1]] # <<>>
    /\ \A e \in 1..Len(log) : log[e] # pdf_dir[pos - 1]

\* C7: the Outline Assembler is a pure filter-and-project.  The outline holds one
\* entry {level, text, page} per block whose final label is H1..H4, in reading
\* order, nothing merged, re-ordered or dropped; the title is the space-joined
\* text of the TITLE blocks in reading order, or the placeholder when there is
\* none; and that is the object emitted.
C7_OutlineAssembler ==
    (Predicting \/ Batching) =>
        /\ Len(final_labels) = Len(assembled)
        /\ FilterProject(assembled, final_labels, title_parts, outline)
        /\ Predicting => \A k \in 1..Len(output) :
                             assembled = all_blocks /\ output[k] = LocalsJson
        /\ JustSaved =>
              /\ assembled = pdfs[pdf_dir[pos - 1]]
              /\ OutputFilename(pdf_dir[pos - 1]) \in DOMAIN out_files.files
              /\ out_files.files[OutputFilename(pdf_dir[pos - 1])] = LocalsJson

\* C7 witness: a two-block document came out with a title and a one-entry outline
C7_Witness ==
    /\ Predicting
    /\ Len(output) = 1
    /\ Len(all_blocks) = 2
    /\ final_labels = <<H3, TITLE>>
    /\ output[1].title = all_blocks[2]["text"]
    /\ Len(output[1].outline) = 1

EmptyOutput == [title |-> DocumentTitleNotFound, outline |-> <<>>]

\* C8: a document without blocks yields exactly the empty output, in
\* predict_outline and in process_all_pdfs.
C8_EmptyDocument ==
    /\ (Predicting /\ pc = "done" /\ Len(extracted) = 1 /\ pdfs[pdf_dir[1]] = <<>>) =>
          output = <<EmptyOutput>>
    /\ (Batching /\ pc = "done") =>
          \A p \in 1..Len(extracted) :
              (pdfs[extracted[p]] = <<>> /\ \A e \in 1..Len(log) : log[e] # extracted[p]) =>
                  /\ OutputFilename(extracted[p]) \in DOMAIN out_files.files
                  /\ out_files.files[OutputFilename(extracted[p])] = EmptyOutput

SeqRange(s) == {s[k] : k \in 1..Len(s)}

\* The feature matrix extract_features yields for each file of the batch directory
BatchMatrices ==
    [n \in DOMAIN BatchFiles |-> LiteExtractFeatures(BatchFiles[n]).matrix]

\* What process_all_pdfs writes for file n when it is the only file of the
\* directory, with the same bundle
AloneOutput(n) ==
    LET blocks == pdfs[n]
        matrix == IF pdfs = BatchFiles THEN BatchMatrices[n]
                  ELSE LiteExtractFeatures(blocks).matrix
        ps == [k \in 1..Len(matrix) |-> model[matrix[k]]]
        labels == BatchLabels(blocks, ps, model_bundle.label_mapping)
    IN  FinalOutput(Assemble(blocks, labels, Len(blocks)))

C10_SchemaVerified ==
    ((Predicting \/ Batching) /\ features_matrix # <<>>) =>
        model_bundle.feature_names = DeclaredFeatureNames

\* The bundle file holds the whole bundle: model, font-id map, label map and
\* feature-name list
BundleIntact == model_bundle.exists /\ BundleKeys \subseteq model_bundle.keys

\* C11: a missing or corrupt bundle is fatal before any document is touched.  With
\* a bundle file that is absent or lacks a required key, predict_outline and
\* process_all_pdfs extract no PDF, do not create the output directory, write no
\* output, and end with the error reported.
C11_BundleFatal ==
    ((Predicting \/ Batching) /\ ~BundleIntact) =>
        /\ extracted = <<>>
        /\ ~out_files.created
        /\ out_files.files = <<>>
        /\ output = <<>>
        /\ pc \in {"load", "done"}
        /\ pc = "done" => fatal # ""

\* The id of the block's font in the bundle's font-id map, -1 for an unseen font
BundleFontId(block) ==
    Float(Get(model_bundle.font_map, Get(block, "font_name", DefaultFont), 0 - 1))

\* C12: at inference the font_name_id of every block is its font's id in the
\* bundle's font-id map, or -1 when the font is not in that map; the map in use is
\* the bundle's, never one rebuilt from the document; the bundle file is not
\* changed.  In predict_outline and in process_all_pdfs.
C12_BundleFontMap ==
    /\ Predicting =>
          /\ font_map \in {<<>>, model_bundle.font_map}
          /\ \A k \in 1..Len(features_matrix) :
                features_matrix[k][5] = BundleFontId(all_blocks[k])
    /\ (JustSaved /\ "font_map" \in model_bundle.keys) =>
          /\ font_map = model_bundle.font_map
          /\ \A k \in 1..Len(features_matrix) :
                features_matrix[k][5] = BundleFontId(assembled[k])
    /\ (Predicting \/ Batching) => model_bundle \in BundleFiles

Extracting == mode = "extract_enriched_blocks"

RECURSIVE DecodablePagesBlocks(_, _)
\* The blocks of the first n pages, the pages that do not decode left out
DecodablePagesBlocks(pages, n) ==
    IF n = 0 THEN <<>>
    ELSE DecodablePagesBlocks(pages, n - 1)
         \o (IF pages[n].decodes THEN PageBlocks(pages[n], n) ELSE <<>>)

\* The page loop stands before a page that does not decode
AtUndecodablePage ==
    Extracting /\ pc = "pages" /\ pages_read < Len(doc) /\ ~doc[pages_read + 1].decodes

\* C13: a page whose decoding fails is skipped.  The step extract_enriched_blocks
\* takes at a page that does not decode goes on to the next page with the block
\* list unchanged; and the list returned holds the blocks of all the other pages,
\* in order.
C13_PageSkipped ==
    /\ [][AtUndecodablePage =>
            (pc' = "pages" /\ pages_read' = pages_read + 1 /\ all_blocks' = all_blocks)]_vars
    /\ []((Extracting /\ pc = "done") =>
            all_blocks = _post_process_spacing(DecodablePagesBlocks(doc, Len(doc))))

\* (page_number, top edge, left edge) of a is not after that of b
NotAfter(a, b) ==
    \/ a["page_number"] < b["page_number"]
    \/ /\ a["page_number"] = b["page_number"]
       /\ \/ a["bbox"].y0 < b["bbox"].y0
          \/ a["bbox"].y0 = b["bbox"].y0 /\ a["bbox"].x0 <= b["bbox"].x0

ReadingOrder(blocks) ==
    \A k \in 1..(Len(blocks) - 1) : NotAfter(blocks[k], blocks[k + 1])

\* The block lists extraction returns for the files of the run
ExtractorOutputs == {pdfs[n] : n \in DOMAIN pdfs}

\* C14: reading order.  The block list extract_enriched_blocks builds and returns
\* is non-decreasing in (page_number, y0, x0) from each block to the next; spacing
\* post-processing keeps the blocks and their order; and at inference the list
\* being featurized and classified and the list being assembled are the
\* extractor's list, in its order.
C14_ReadingOrder ==
    /\ Extracting =>
          /\ ReadingOrder(all_blocks)
          /\ pc = "done" =>
                /\ Len(all_blocks) = Len(DecodablePagesBlocks(doc, Len(doc)))
                /\ \A k \in 1..Len(all_blocks) :
                      \A key \in DOMAIN DecodablePagesBlocks(doc, Len(doc))[k] :
                          all_blocks[k][key] = DecodablePagesBlocks(doc, Len(doc))[k][key]
    /\ (Predicting \/ Batching) =>
          /\ all_blocks \in {<<>>} \cup ExtractorOutputs
          /\ assembled \in {<<>>} \cup ExtractorOutputs
          /\ ReadingOrder(all_blocks) /\ ReadingOrder(assembled)
          /\ (Predicting \/ JustSaved) =>
                \A k \in 1..Len(features_matrix) :
                    features_matrix[k][1] = Float(all_blocks[k]["font_size"])

\* C14 witness: two pages came out in page order, the first page's two blocks with
\* the same top edge ordered by left edge, the second page's by top edge, though
\* the file lists them the other way round
C14_Witness ==
    /\ Extracting /\ pc = "done"
    /\ doc = <<PageKinds[1], PageKinds[2]>>
    /\ Len(all_blocks) = 4
    /\ all_blocks[1]["text"] = <<"I", "n", "t", "r", "o">>
    /\ all_blocks[2]["text"] = <<"1", ".", " ", "G", "o", ".">>
    /\ all_blocks[3]["page_number"] = 2
    /\ all_blocks[4]["text"] = <<"S", "u", "b", " ", "t", "o", "t", "a", "l">>

\* C15: spacing.  In the returned list, for consecutive blocks k, k+1 of one page
\* vertical_space_after of k and vertical_space_before of k+1 are top(k+1) -
\* bottom(k); a block that is last (first) on its page has space-after
\* (space-before) 100; no gap spans a page boundary.
C15_Spacing ==
    (Extracting /\ pc = "done") =>
        \A k \in 1..Len(all_blocks) :
            /\ IF k < Len(all_blocks)
                  /\ all_blocks[k + 1]["page_number"] = all_blocks[k]["page_number"]
               THEN /\ all_blocks[k]["vertical_space_after"]
                         = all_blocks[k + 1]["bbox"].y0 - all_blocks[k]["bbox"].y1
                    /\ all_blocks[k + 1]["vertical_space_before"]
                         = all_blocks[k + 1]["bbox"].y0 - all_blocks[k]["bbox"].y1
               ELSE all_blocks[k]["vertical_space_after"] = 100
            /\ (k = 1 \/ all_blocks[k - 1]["page_number"] # all_blocks[k]["page_number"]) =>
                  all_blocks[k]["vertical_space_before"] = 100

\* C15 witness: two blocks on page 1 with the gap between them, then a page
\* boundary with the sentinel on both sides
C15_Witness ==
    /\ Extracting /\ pc = "done"
    /\ doc = <<PageKinds[2], PageKinds[1]>>
    /\ Len(all_blocks) = 4
    /\ all_blocks[1]["vertical_space_after"] = 264
    /\ all_blocks[2]["vertical_space_before"] = 264
    /\ all_blocks[2]["vertical_space_after"] = 100
    /\ all_blocks[3]["vertical_space_before"] = 100
    /\ all_blocks[3]["page_number"] = 2

RECURSIVE FileStart(_, _)
\* The position in all_blocks of the first block of the j-th labeled file
FileStart(files, j) ==
    IF j = 1 THEN 1 ELSE FileStart(files, j - 1) + Len(files[j - 1])

\* No heading seen: index -1, level 0
NoHeadingSeen(context) == context.index = 0 - 1 /\ context.level = 0

\* C16: heading context never crosses a document boundary.  In run_training the
\* first block of every labeled file is featurized with the initial context
\* (index -1, level 0, distance 100) and no block has a heading of an earlier file
\* as its context; at inference the first block of every document is featurized
\* with the initial context.
C16_ContextPerDocument ==
    /\ mode = "run_training" =>
          \A j \in 1..Len(labeled_files) :
              /\ FileStart(labeled_files, j) <= Len(heading_context) =>
                    NoHeadingSeen(heading_context[FileStart(labeled_files, j)])
              /\ FileStart(labeled_files, j) <= Len(features_matrix) =>
                    features_matrix[FileStart(labeled_files, j)][20] = Float(100)
              /\ \A k \in 1..Len(heading_context) :
                    k >= FileStart(labeled_files, j) =>
                        \/ heading_context[k].index = 0 - 1
                        \/ heading_context[k].index + 1 >= FileStart(labeled_files, j)
    /\ (Predicting \/ Batching) =>
          (heading_context # <<>> =>
              heading_context[1] = InitialHeadingInfo(median_font))

\* C18: in process_all_pdfs the heading context never advances.  Every block of
\* every document is featurized with the initial context: last_heading_level 0,
\* distance_from_last_heading 100 and font_size_vs_last_heading = font size /
\* document median, whatever the classifier predicts.
C18_BatchContextFixed ==
    Batching =>
        /\ \A k \in 1..Len(heading_context) :
              heading_context[k] = InitialHeadingInfo(median_font)
        /\ \A k \in 1..Len(features_matrix) :
              /\ features_matrix[k][19] = Float(0)
              /\ features_matrix[k][20] = Float(100)
        /\ JustSaved =>
              /\ median_font = MedianFont(assembled)
              /\ \A k \in 1..Len(features_matrix) :
                    features_matrix[k][21]
                      = RatDiv(Float(assembled[k]["font_size"]), median_font)

\* C18 witness: the classifier called the first block of a.pdf an H1 and the
\* second block was featurized with the initial context all the same
C18_Witness ==
    /\ Batching /\ JustSaved
    /\ Len(features_matrix) = 2
    /\ ClassifierLabel(1) = H1 /\ final_labels[1] = H1
    /\ features_matrix[2][19] = Float(0)
    /\ features_matrix[2][20] = Float(100)
    /\ heading_context[2].index = 0 - 1

\* Rectangle inner lies within rectangle outer
Within(inner, outer) ==
    /\ outer.x0 <= inner.x0 /\ inner.x1 <= outer.x1
    /\ outer.y0 <= inner.y0 /\ inner.y1 <= outer.y1

\* The blocks of the page processed last
LastPageBlocks ==
    {all_blocks[k] : k \in {j \in 1..Len(all_blocks) :
                              all_blocks[j]["page_number"] = pages_read}}

\* C17: table-region inference.  On a page with a horizontal ruling (width > 30,
\* height < 3) and a vertical ruling (height > 20, width < 3) there is one
\* inferred rectangle, it contains every horizontal and every vertical ruling, and
\* a block is flagged is_in_table iff its center lies in it; on a page lacking
\* either kind of ruling no block is flagged.
C17_TableRegion ==
    (Extracting /\ pages_read >= 1) =>
        IF h_lines(doc[pages_read].drawings) # {} /\ v_lines(doc[pages_read].drawings) # {}
        THEN /\ Len(table_bboxes) = 1
             /\ \A l \in h_lines(doc[pages_read].drawings)
                         \cup v_lines(doc[pages_read].drawings) :
                    Within(l, table_bboxes[1])
             /\ \A b \in LastPageBlocks :
                    b["is_in_table"] <=> CenterIn(b["bbox"], table_bboxes[1])
        ELSE /\ table_bboxes = <<>>
             /\ \A b \in LastPageBlocks : ~b["is_in_table"]

====
